---- MODULE Spec2Model ----
(***************************************************************************)
(* Model of the weight conversion service (oknozor/conversion_api):        *)
(* the rule closure builder ALL_CONVERSION, the rule transforms invert and *)
(* combine, the lookup convert_to, the rounding step of execute and the    *)
(* two unit parsers.                                                       *)
(*                                                                         *)
(* f64 values are modelled exactly.  A finite double is a record           *)
(* [s, m, e] whose value is (-1)^s * m * 2^e, with m a 53 bit natural      *)
(* (2^52 <= m < 2^53) or zero.  Naturals wider than TLC's machine integers *)
(* are little-endian sequences of limbs in base 2^14.  Every arithmetic    *)
(* step rounds to nearest, ties to even, as IEEE 754 binary64 does;        *)
(* exponent overflow and subnormals are out of the modelled range.         *)
(***************************************************************************)
EXTENDS Integers, Sequences, FiniteSets, TLC

\* ------------------------------------------------------------------------
\* Multi-precision naturals
\* ------------------------------------------------------------------------

\* limbs are 14 bits wide, so that a sum of up to seven products of two
\* limbs, plus a carry, stays inside a 32 bit machine integer
Base == 2^14

\* In the recursions below the next step is written
\* CHOOSE r \in {step(x) : x \in {v}} : TRUE, which is step(v) with v
\* evaluated first: it keeps the evaluation of a long accumulation shallow.

RECURSIVE BNorm(_)
BNorm(a) ==
  IF a = <<>> THEN <<>>
  ELSE IF a[Len(a)] = 0 THEN BNorm(SubSeq(a, 1, Len(a) - 1))
  ELSE a

BOne == <<1>>

RECURSIVE BFromInt(_)
BFromInt(n) == IF n = 0 THEN <<>> ELSE <<n % Base>> \o BFromInt(n \div Base)

Limb(a, i) == IF i >= 1 /\ i <= Len(a) THEN a[i] ELSE 0

\* limbs whose values may exceed the base, from position i on with carry c
\* in, brought back to limbs below the base
RECURSIVE BCarry(_, _, _)
BCarry(cols, i, c) ==
  IF i > Len(cols)
  THEN (IF c = 0 THEN <<>> ELSE <<c % Base>> \o BCarry(cols, i, c \div Base))
  ELSE <<(cols[i] + c) % Base>> \o BCarry(cols, i + 1, (cols[i] + c) \div Base)

BAdd(a, b) ==
  BCarry([i \in 1..(IF Len(a) > Len(b) THEN Len(a) ELSE Len(b)) |->
            Limb(a, i) + Limb(b, i)], 1, 0)

RECURSIVE BSubC(_, _, _, _)
BSubC(a, b, i, c) ==
  IF i > Len(a) THEN <<>>
  ELSE IF Limb(a, i) - Limb(b, i) - c < 0
  THEN <<Limb(a, i) - Limb(b, i) - c + Base>> \o BSubC(a, b, i + 1, 1)
  ELSE <<Limb(a, i) - Limb(b, i) - c>> \o BSubC(a, b, i + 1, 0)

\* a - b for a >= b
BSub(a, b) == BNorm(BSubC(a, b, 1, 0))

RECURSIVE BCmpAt(_, _, _)
BCmpAt(a, b, i) ==
  IF i = 0 THEN 0
  ELSE IF a[i] > b[i] THEN 1
  ELSE IF a[i] < b[i] THEN -1
  ELSE BCmpAt(a, b, i - 1)

\* -1, 0, 1 as a < b, a = b, a > b (both normalised)
BCmp(a, b) ==
  IF Len(a) > Len(b) THEN 1
  ELSE IF Len(a) < Len(b) THEN -1
  ELSE BCmpAt(a, b, Len(a))

\* a * k for 0 <= k < Base
BMulSmall(a, k) ==
  IF k = 0 THEN <<>> ELSE BCarry([i \in 1..Len(a) |-> a[i] * k], 1, 0)

\* the sum of a[i] * b[k + 1 - i] from i on: column k of the product
RECURSIVE BColumn(_, _, _, _)
BColumn(a, b, k, i) ==
  IF i > Len(a) \/ i > k THEN 0
  ELSE a[i] * b[k + 1 - i] + BColumn(a, b, k, i + 1)

\* a * b, one of them of at most seven limbs
BMul(a, b) ==
  IF a = <<>> \/ b = <<>> THEN <<>>
  ELSE BCarry([k \in 1..(Len(a) + Len(b) - 1) |->
                 BColumn(a, b, k, IF k > Len(b) THEN k + 1 - Len(b) ELSE 1)],
              1, 0)

RECURSIVE IntBitLen(_)
IntBitLen(n) == IF n = 0 THEN 0 ELSE 1 + IntBitLen(n \div 2)

LimbBits == IntBitLen(Base) - 1

BBitLen(a) ==
  IF a = <<>> THEN 0 ELSE LimbBits * (Len(a) - 1) + IntBitLen(a[Len(a)])

\* a * 2^n
BShl(a, n) ==
  IF a = <<>> THEN <<>>
  ELSE [i \in 1..(n \div LimbBits) |-> 0] \o BMulSmall(a, 2^(n % LimbBits))

\* floor(a / 2^n)
BShr(a, n) ==
  IF n \div LimbBits >= Len(a) THEN <<>>
  ELSE BNorm([i \in 1..(Len(a) - (n \div LimbBits)) |->
                (a[i + (n \div LimbBits)] \div 2^(n % LimbBits))
                + (Limb(a, i + (n \div LimbBits) + 1) % 2^(n % LimbBits))
                  * 2^(LimbBits - (n % LimbBits))])

\* a mod 2^n
BLow(a, n) ==
  IF n \div LimbBits >= Len(a) THEN a
  ELSE BNorm([i \in 1..((n \div LimbBits) + 1) |->
                IF i <= n \div LimbBits THEN a[i] ELSE a[i] % 2^(n % LimbBits)])

BOdd(a) == a # <<>> /\ a[1] % 2 = 1

\* the limbs of r from position n up, as one machine integer (r has at most
\* n + 1 limbs)
BTop(r, n) == Limb(r, n + 1) * Base + Limb(r, n)

\* <<floor(r / d), r mod d>> for r < d * Base, the quotient a machine
\* integer: q is the part of the quotient already taken out of r.  Each round
\* takes out an estimate from the leading limbs that never exceeds what is
\* left of the quotient.
RECURSIVE BQuotDigit(_, _, _)
BQuotDigit(r, d, q) ==
  IF BCmp(r, d) < 0 THEN <<q, r>>
  ELSE IF BTop(r, Len(d)) \div (d[Len(d)] + 1) > 1
  THEN BQuotDigit(BSub(r, BMulSmall(d, BTop(r, Len(d)) \div (d[Len(d)] + 1))),
                  d, q + (BTop(r, Len(d)) \div (d[Len(d)] + 1)))
  ELSE BQuotDigit(BSub(r, d), d, q + 1)

\* long division in base 2^14, limb j of p down to limb 1;
\* qr = <<quotient, remainder>>
RECURSIVE BDivLimbs(_, _, _, _)
BDivLimbs(p, d, j, qr) ==
  IF j = 0 THEN qr
  ELSE CHOOSE r \in
         {BDivLimbs(p, d, j - 1, << <<dg[1]>> \o qr[1], dg[2] >>) :
            dg \in {BQuotDigit(BNorm(<<p[j]>> \o qr[2]), d, 0)}} : TRUE

\* <<floor(p / d), p mod d>> for d > 0
BDivMod(p, d) ==
  IF d = BOne THEN <<p, <<>>>>
  ELSE LET qr == BDivLimbs(p, d, Len(p), <<<<>>, <<>>>>)
       IN <<BNorm(qr[1]), qr[2]>>

RECURSIVE BDivSmallAt(_, _, _, _)
BDivSmallAt(a, k, i, r) ==
  IF i = 0 THEN <<<<>>, r>>
  ELSE LET rest == BDivSmallAt(a, k, i - 1, (r * Base + a[i]) % k)
       IN <<rest[1] \o <<(r * Base + a[i]) \div k>>, rest[2]>>

\* <<floor(a / k), a mod k>> for 0 < k < Base, the remainder a machine integer
BDivSmall(a, k) ==
  LET r == BDivSmallAt(a, k, Len(a), 0) IN <<BNorm(r[1]), r[2]>>

RECURSIVE BPow10(_)
BPow10(k) == IF k = 0 THEN BOne ELSE BMulSmall(BPow10(k - 1), 10)

\* floor(a / 2^n) rounded to nearest, ties to even; sticky says that the
\* value a stands for has further non-zero digits below its last bit
BRoundShr(a, n, sticky) ==
  IF n = 0 THEN a
  ELSE LET q == BShr(a, n)
           c == BCmp(BLow(a, n), BShl(BOne, n - 1))
       IN IF c > 0 \/ (c = 0 /\ (sticky \/ BOdd(q)))
          THEN BAdd(q, BOne)
          ELSE q

\* ------------------------------------------------------------------------
\* f64: IEEE 754 binary64 values and the operations the program uses
\* ------------------------------------------------------------------------

\* 52 stored fraction bits and the implicit leading bit
MantBits == 52 + 1

F64Zero(s) == [s |-> s, m |-> <<>>, e |-> 0]

\* the double nearest to (-1)^s * (p / q) * 2^x, ties to even
F64Round(s, p, q, x) ==
  IF p = <<>> THEN F64Zero(s)
  ELSE LET need == BBitLen(q) + MantBits + 2 - BBitLen(p)
           k == IF need > 0 THEN need ELSE 0
           qr == BDivMod(BShl(p, k), q)
           d == BBitLen(qr[1]) - MantBits
           m == BRoundShr(qr[1], d, qr[2] # <<>>)
       IN IF BBitLen(m) > MantBits
          THEN [s |-> s, m |-> BShr(m, 1), e |-> x - k + d + 1]
          ELSE [s |-> s, m |-> m, e |-> x - k + d]

F64One == F64Round(0, BOne, BOne, 0)

F64IsZero(a) == a.m = <<>>

\* a == b on f64 (-0.0 equals 0.0)
F64Eq(a, b) == (F64IsZero(a) /\ F64IsZero(b)) \/ a = b

\* |a| compared with |b|: -1, 0, 1
F64CmpMag(a, b) ==
  IF F64IsZero(a) THEN (IF F64IsZero(b) THEN 0 ELSE -1)
  ELSE IF F64IsZero(b) THEN 1
  ELSE IF a.e > b.e THEN 1
  ELSE IF a.e < b.e THEN -1
  ELSE BCmp(a.m, b.m)

\* a > b on f64
F64Gt(a, b) ==
  IF F64IsZero(a) /\ F64IsZero(b) THEN FALSE
  ELSE IF a.s = 0 /\ b.s = 1 THEN TRUE
  ELSE IF a.s = 1 /\ b.s = 0 THEN FALSE
  ELSE IF a.s = 0 THEN F64CmpMag(a, b) > 0
  ELSE F64CmpMag(a, b) < 0

\* a * b
F64Mul(a, b) == F64Round((a.s + b.s) % 2, BMul(a.m, b.m), BOne, a.e + b.e)

\* a / b for b # 0
F64Div(a, b) == F64Round((a.s + b.s) % 2, a.m, b.m, a.e - b.e)

\* f64::ceil
F64Ceil(a) ==
  IF F64IsZero(a) \/ a.e >= 0 THEN a
  ELSE LET ip == BShr(a.m, 0 - a.e)
           frac == BLow(a.m, 0 - a.e) # <<>>
           c == IF frac /\ a.s = 0 THEN BAdd(ip, BOne) ELSE ip
       IN F64Round(a.s, c, BOne, 0)

\* ------------------------------------------------------------------------
\* Decimal text: a sequence of one-character strings
\* ------------------------------------------------------------------------

DigitChar == <<"0", "1", "2", "3", "4", "5", "6", "7", "8", "9">>

IsDigit(c) == \E d \in 1..10 : DigitChar[d] = c

DigitVal(c) == (CHOOSE d \in 1..10 : DigitChar[d] = c) - 1

\* the decimal digits of n, most significant first ("" for 0)
RECURSIVE BDigits(_)
BDigits(n) ==
  IF n = <<>> THEN <<>>
  ELSE LET qr == BDivSmall(n, 10)
       IN BDigits(qr[1]) \o <<DigitChar[qr[2] + 1]>>

\* format!("{:.p}", a): |a| * 10^p rounded to the nearest integer (ties to
\* even, on the exact binary value), printed with p fractional digits
FormatFixed(a, p) ==
  LET scaled == BMul(a.m, BPow10(p))
      n == IF a.e >= 0 THEN BShl(scaled, a.e)
           ELSE BRoundShr(scaled, 0 - a.e, FALSE)
      ds == BDigits(n)
      pad == IF Len(ds) > p THEN ds
             ELSE [i \in 1..(p + 1 - Len(ds)) |-> "0"] \o ds
      body == SubSeq(pad, 1, Len(pad) - p) \o <<".">>
                \o SubSeq(pad, Len(pad) - p + 1, Len(pad))
  IN IF a.s = 1 THEN <<"-">> \o body ELSE body

\* the digits of t from position i on, as <<integer, count of digits after
\* the point>>; acc = <<integer so far, fraction digits so far, seen point>>
RECURSIVE ParseFrom(_, _, _)
ParseFrom(t, i, acc) ==
  IF i > Len(t) THEN acc
  ELSE IF t[i] = "." THEN ParseFrom(t, i + 1, <<acc[1], acc[2], TRUE>>)
  ELSE CHOOSE r \in
         {ParseFrom(t, i + 1, next) :
            next \in {<<BAdd(BMulSmall(acc[1], 10), BFromInt(DigitVal(t[i]))),
                        IF acc[3] THEN acc[2] + 1 ELSE acc[2], acc[3]>>}} : TRUE

\* str::parse::<f64> on [-]digits[.digits]: the correctly rounded double
ParseF64(t) ==
  LET neg == t # <<>> /\ t[1] = "-"
      acc == ParseFrom(t, IF neg THEN 2 ELSE 1, <<<<>>, 0, FALSE>>)
  IN F64Round(IF neg THEN 1 ELSE 0, acc[1], BPow10(acc[2]), 0)

\* ------------------------------------------------------------------------
\* Units and conversion rules (src/src/conversion.rs, src/src/main.rs)
\* ------------------------------------------------------------------------

\* enum Unit
Unit == {"Lb", "Kilo", "Ton", "Gram"}

\* the variants in declaration order
UnitSeq == <<"Lb", "Kilo", "Ton", "Gram">>

\* what a panic leaves instead of a value
Panic == "panic"

\* impl From<&str> for Unit (conversion.rs): todo!("error") panics
Unit_from(unit) ==
  CASE unit = "lb" -> "Lb"
    [] unit = "g" -> "Gram"
    [] unit = "kg" -> "Kilo"
    [] unit = "metric ton" -> "Ton"
    [] OTHER -> Panic

\* impl TryFrom<&str> for Unit (main.rs)
Unit_try_from(unit) ==
  CASE unit = "lb" -> [ok |-> TRUE, unit |-> "Lb"]
    [] unit = "g" -> [ok |-> TRUE, unit |-> "Gram"]
    [] unit = "kg" -> [ok |-> TRUE, unit |-> "Kilo"]
    [] unit = "metric ton" -> [ok |-> TRUE, unit |-> "Ton"]
    [] OTHER -> [ok |-> FALSE, err |-> <<"UnknownUnit", unit>>]

\* Unit::is_metric
is_metric(u) == u \in {"Kilo", "Ton", "Gram"}

\* a table whose kg -> lb factor is written with four decimals
CONVERSION_TABLE_short ==
  << <<"lb", "kg", <<"0", ".", "4", "5", "3", "5", "9", "2", "3", "7">> >>,
     <<"lb", "g", <<"4", "5", "3", ".", "5", "9", "2", "3", "7">> >>,
     <<"kg", "lb", <<"2", ".", "2", "0", "4", "6">> >>,
     <<"kg", "metric ton", <<"0", ".", "0", "0", "1">> >> >>

\* const CONVERSION_TABLE: [[&str; 3]; 4]
CONVERSION_TABLE ==
  << <<"lb", "kg", <<"0", ".", "4", "5", "3", "5", "9", "2", "3", "7">> >>,
     <<"lb", "g", <<"4", "5", "3", ".", "5", "9", "2", "3", "7">> >>,
     <<"kg", "lb", <<"2", ".", "2", "0", "4", "6", "2", "2", "6", "2">> >>,
     <<"kg", "metric ton", <<"0", ".", "0", "0", "1">> >> >>

\* impl From<&[&str; 3]> for ConversionRule
ConversionRule_from(rule) ==
  [from |-> Unit_from(rule[1]), to |-> Unit_from(rule[2]),
   factor |-> ParseF64(rule[3])]

\* impl PartialEq for ConversionRule; Hash feeds the same two fields
eq(a, b) == a.from = b.from /\ a.to = b.to

\* HashSet::contains
contains(rs, rule) == \E x \in rs : eq(x, rule)

\* an insert that replaces an equal element, as HashSet::replace does
insert_replace(rs, rule) == {r \in rs : ~eq(r, rule)} \cup {rule}

\* HashSet::insert: an equal element already present is kept, not replaced
insert(rs, rule) == IF contains(rs, rule) THEN rs ELSE rs \cup {rule}

\* an inversion that swaps the units and forgets the reciprocal
invert_keep_factor(r) == [from |-> r.to, to |-> r.from, factor |-> r.factor]

\* ConversionRule::invert
invert(r) == [from |-> r.to, to |-> r.from, factor |-> F64Div(F64One, r.factor)]

\* ConversionRule::apply_to
apply_to(r, quantity) == F64Mul(r.factor, quantity)

\* a combine without the metric ceiling
combine_factor_no_ceil(r, other) ==
  IF r.from = other.to THEN F64One ELSE F64Mul(r.factor, other.factor)

\* a combine that takes the ceiling of every factor above 1.0
combine_factor_ceil_any(r, other) ==
  LET factor == IF r.from = other.to THEN F64One
                ELSE F64Mul(r.factor, other.factor)
  IN IF F64Gt(factor, F64One) THEN F64Ceil(factor) ELSE factor

\* the factor ConversionRule::combine computes
combine_factor(r, other) ==
  LET from == r.from
      to == other.to
      factor == IF from = to THEN F64One ELSE F64Mul(r.factor, other.factor)
  IN IF is_metric(from) /\ is_metric(to) /\ F64Gt(factor, F64One)
     THEN F64Ceil(factor)
     ELSE factor

\* ConversionRule::combine
combine(r, other) ==
  [from |-> r.from, to |-> other.to, factor |-> combine_factor(r, other)]

\* ------------------------------------------------------------------------
\* The closure builder: the initialiser of ALL_CONVERSION
\* ------------------------------------------------------------------------

\* CONVERSION_TABLE.iter().map(f).for_each(|rule| rules.insert(rule)), from
\* row i on
RECURSIVE insert_rows(_, _, _)
insert_rows(rs, inverted, i) ==
  IF i > Len(CONVERSION_TABLE) THEN rs
  ELSE LET rule == ConversionRule_from(CONVERSION_TABLE[i])
       IN insert_rows(insert(rs, IF inverted THEN invert(rule) ELSE rule),
                      inverted, i + 1)

\* the working set before the loop: the seed rules, then their inverses
seed_rules == insert_rows(insert_rows({}, FALSE, 1), TRUE, 1)

\* a closure body that writes the combined rule and its inverse whatever
\* the set holds, as HashSet::replace would
combine_into_overwrite(rs, rule, other) ==
  insert_replace(insert_replace(rs, combine(rule, other)),
                 invert(combine(rule, other)))

\* the body of the for_each closure for one pair (rule, other).  contains
\* reads only from and to of its argument (eq, hash), so the set is asked
\* with those two fields of the combined rule, and the factor is computed
\* only for a rule that is inserted.
combine_into(rs, rule, other) ==
  IF ~contains(rs, [from |-> rule.from, to |-> other.to])
  THEN LET combined == combine(rule, other)
           inverted == invert(combined)
           rs1 == insert(rs, combined)
       IN IF ~contains(rs1, inverted) THEN insert(rs1, inverted) ELSE rs1
  ELSE rs

\* the inner iteration for one rule of the snapshot: every other rule of the
\* snapshot with other.from == rule.to.  The pairs written for two different
\* others (rule.from, other.to) and (other.to, rule.from) never coincide, so
\* the order in which the others are met does not change the outcome; they
\* are taken here in the order of UnitSeq, from position i on.
RECURSIVE for_each_other(_, _, _, _)
for_each_other(rs, others, rule, i) ==
  IF i > Len(UnitSeq) THEN rs
  ELSE LET next == {o \in others : o.to = UnitSeq[i]}
       IN IF next = {} THEN for_each_other(rs, others, rule, i + 1)
          ELSE for_each_other(combine_into(rs, rule, CHOOSE o \in next : TRUE),
                              others, rule, i + 1)

\* an inner filter on the wrong field: other.from == rule.from
visit_same_from(rs, current, rule) ==
  for_each_other(rs, {o \in current : o.from = rule.from}, rule, 1)

\* current_rules.iter().filter(|other| other.from == rule.to).for_each(..)
visit(rs, current, rule) ==
  for_each_other(rs, {o \in current : o.from = rule.to}, rule, 1)

\* Unit::convert_to on the table rs
convert_to(rs, self, to, quantity) ==
  LET found == {rule \in rs : rule.from = self /\ to = rule.to}
  IN IF found # {}
     THEN [ok |-> TRUE, value |-> apply_to(CHOOSE rule \in found : TRUE, quantity)]
     ELSE [ok |-> FALSE]

\* a formatting that cuts the digits after the p-th instead of rounding
FormatTruncated(a, p) ==
  LET scaled == BMul(a.m, BPow10(p))
      n == IF a.e >= 0 THEN BShl(scaled, a.e) ELSE BShr(scaled, 0 - a.e)
      ds == BDigits(n)
      pad == IF Len(ds) > p THEN ds
             ELSE [i \in 1..(p + 1 - Len(ds)) |-> "0"] \o ds
      body == SubSeq(pad, 1, Len(pad) - p) \o <<".">>
                \o SubSeq(pad, Len(pad) - p + 1, Len(pad))
  IN IF a.s = 1 THEN <<"-">> \o body ELSE body

\* an execute that truncates after the 8th decimal digit
execute_truncating(rs, from, to, quantity) ==
  LET result == convert_to(rs, from, to, quantity)
  IN IF result.ok
     THEN [ok |-> TRUE, value |-> ParseF64(FormatTruncated(result.value, 8))]
     ELSE result

\* an execute that formats with {:.2}
execute_cents(rs, from, to, quantity) ==
  LET result == convert_to(rs, from, to, quantity)
  IN IF result.ok
     THEN [ok |-> TRUE, value |-> ParseF64(FormatFixed(result.value, 2))]
     ELSE result

\* Conversion::execute on the table rs
execute(rs, from, to, quantity) ==
  LET result == convert_to(rs, from, to, quantity)
  IN IF result.ok
     THEN [ok |-> TRUE, value |-> ParseF64(FormatFixed(result.value, 8))]
     ELSE result

\* ------------------------------------------------------------------------
\* The state machine
\* ------------------------------------------------------------------------

\* number of convert calls in a run
MaxCalls == 2

\* the request quantities, as the decimal texts they are parsed from
QuantityText ==
  { <<"1">>, <<"1", "0", "0", "0">>, <<"0", ".", "0", "0", "1">>,
    <<"0", ".", "1", "2", "3", "4", "5", "6", "7", "8", "9">>,
    <<"-", "2", ".", "5">>,
    <<"0", ".", "0", "0", "0", "0", "0", "0", "0", "1">>,
    <<"0", ".", "0", "1">>,
    <<"1", "2", "3", "4", "5", "6", "7", "8", "9", ".", "1", "2", "5">> }

Quantity == {ParseF64(t) : t \in QuantityText}

\* number of threads that call Conversion::execute at the same time
MaxCallers == 2

\* number of calls of Conversion::execute the threads make in a run
MaxConvert == 3

Caller == 1..MaxCallers

\* a thread outside execute holds nothing
NoCall ==
  [pc |-> "idle", table |-> {}, request |-> <<>>, printed |-> 0,
   rule |-> <<>>, value |-> <<>>]

VARIABLES
  pc,             \* "idle", "loop", "pass" or "built": where the current call is
  rules,          \* the working set of the builder, then the table
  current_rules,  \* the snapshot a pass iterates
  visited,        \* the (from, to) of the snapshot's rules whose iteration
                  \* is over or can no longer write anything
  builds,         \* how many times the initialiser has run
  response,       \* <<>> or <<the last request with its result>>
  parsed,         \* <<>> or <<the last unit code parsed with its outcome>>
  callers,        \* what each concurrent caller of execute holds: its
                  \* position in convert_to / execute, the number of lines
                  \* its initialiser has printed so far, and its own table
  stdout,         \* the holder of the lock of the standard output that
                  \* println! takes, 0 when it is free
  capture         \* TRUE when the threads run with an output capture set
                  \* (the test harness without --nocapture): println! then
                  \* writes to the buffer of the thread's own test

vars ==
  <<pc, rules, current_rules, visited, builds, response, parsed, callers,
    stdout, capture>>

\* the program before any call
Start ==
  /\ pc = "idle"
  /\ rules = {}
  /\ current_rules = {}
  /\ visited = {}
  /\ builds = 0
  /\ response = <<>>
  /\ parsed = <<>>
  /\ callers = [c \in Caller |-> NoCall]
  /\ stdout = 0

Init == Start /\ capture = FALSE

\* convert_to names the const ALL_CONVERSION: the use is a fresh Lazy, and
\* its first dereference runs the initialiser up to the loop
Force ==
  /\ pc = "idle"
  /\ builds < MaxCalls
  /\ rules' = seed_rules
  /\ builds' = builds + 1
  /\ response' = <<>>
  /\ pc' = "loop"
  /\ UNCHANGED <<current_rules, visited, parsed, callers, stdout, capture>>

\* a loop that leaves as soon as every pair of distinct units has a rule
LoopExit_distinct_pairs ==
  /\ pc = "loop"
  /\ Cardinality(rules) >= Cardinality(Unit) * (Cardinality(Unit) - 1)
  /\ pc' = "built"
  /\ UNCHANGED <<rules, current_rules, visited, builds, response, parsed, callers, stdout, capture>>

\* the head of the loop: leave with 16 rules, or take a snapshot
LoopExit ==
  /\ pc = "loop"
  /\ Cardinality(rules) = 16
  /\ pc' = "built"
  /\ UNCHANGED <<rules, current_rules, visited, builds, response, parsed, callers, stdout, capture>>

LoopSnapshot ==
  /\ pc = "loop"
  /\ Cardinality(rules) # 16
  /\ current_rules' = rules
  /\ visited' = {}
  /\ pc' = "pass"
  /\ UNCHANGED <<rules, builds, response, parsed, callers, stdout, capture>>

\* the iteration of the outer loop for rule writes nothing to rs: every pair
\* (rule.from, other.to) it would combine is in rs.  The working set only
\* grows during a pass, so an iteration that writes nothing now writes
\* nothing wherever it comes later in the pass.
settled(rs, current, rule) ==
  \A other \in current :
    other.from = rule.to => contains(rs, [from |-> rule.from, to |-> other.to])

\* one iteration of `for rule in &current_rules`: the hash set yields its
\* elements in an order of its own, so any rule not yet visited may be next.
\* The iterations that can no longer write anything are the same at every
\* later place of the order; they are counted as visited with this one, so
\* that the orders explored differ only in the iterations that write.
PassStep ==
  /\ pc = "pass"
  /\ \E rule \in current_rules :
       /\ <<rule.from, rule.to>> \notin visited
       /\ rules' = visit(rules, current_rules, rule)
       /\ visited' = visited \cup {<<rule.from, rule.to>>} \cup
            {<<r.from, r.to>> :
               r \in {x \in current_rules : settled(rules', current_rules, x)}}
  /\ UNCHANGED <<pc, current_rules, builds, response, parsed, callers, stdout, capture>>

\* the for loop is through the snapshot
PassEnd ==
  /\ pc = "pass"
  /\ \A rule \in current_rules : <<rule.from, rule.to>> \in visited
  /\ current_rules' = {}
  /\ visited' = {}
  /\ pc' = "loop"
  /\ UNCHANGED <<rules, builds, response, parsed, callers, stdout, capture>>

\* the rest of Conversion::execute, on the table just built; the table is a
\* temporary of the call and is dropped with it
Execute ==
  /\ pc = "built"
  /\ \E from \in Unit, to \in Unit, quantity \in Quantity :
       response' = << [from |-> from, to |-> to, quantity |-> quantity,
                       result |-> execute(rules, from, to, quantity)] >>
  /\ rules' = {}
  /\ pc' = "idle"
  /\ UNCHANGED <<current_rules, visited, builds, parsed, callers, stdout, capture>>

Next == Force \/ LoopExit \/ LoopSnapshot \/ PassStep \/ PassEnd \/ Execute

Spec == Init /\ [][Next]_vars

\* ------------------------------------------------------------------------
\* The unit parsers on their own
\* ------------------------------------------------------------------------

\* unit codes handed to the parsers: the four known ones and others
CodeHead == {"", "l", "k", "g", "metric ", "o", "L", "kilo", "m", " "}

CodeTail == {"", "b", "g", "ton", "z", "B", "gram", "t", " ", "s"}

Code == {h \o t : h \in CodeHead, t \in CodeTail}

\* Unit::try_from(code) of main.rs
ParseTry ==
  /\ \E code \in Code :
       parsed' = << [parser |-> "try_from", code |-> code,
                     result |-> Unit_try_from(code)] >>
  /\ UNCHANGED <<pc, rules, current_rules, visited, builds, response, callers, stdout, capture>>

\* Unit::from(code) of conversion.rs, which returns a Unit or panics
ParseInto ==
  /\ \E code \in Code :
       parsed' = << [parser |-> "from", code |-> code,
                     result |-> IF Unit_from(code) = Panic
                                THEN [ok |-> FALSE, panic |-> "error"]
                                ELSE [ok |-> TRUE, unit |-> Unit_from(code)]] >>
  /\ UNCHANGED <<pc, rules, current_rules, visited, builds, response, callers, stdout, capture>>

ParseNext == ParseTry \/ ParseInto

ParseSpec == Init /\ [][ParseNext]_vars

\* ------------------------------------------------------------------------
\* Concurrent callers of Conversion::execute
\* ------------------------------------------------------------------------

\* combine takes the branch that prints a line and gives the ceiling
takes_ceiling(r, other) ==
  LET from == r.from
      to == other.to
      factor == IF from = to THEN F64One ELSE F64Mul(r.factor, other.factor)
  IN is_metric(from) /\ is_metric(to) /\ F64Gt(factor, F64One)

\* the calls of the closure body in one pass over the snapshot current
body_calls(current) == {p \in current \X current : p[2].from = p[1].to}

\* the lines one pass prints whatever the order of its iterations: FROM, TO
\* and COMBINED for every call of the closure body, and the line of combine
\* when it takes the ceiling
pass_prints(current) ==
  3 * Cardinality(body_calls(current))
    + Cardinality({p \in body_calls(current) : takes_ceiling(p[1], p[2])})

\* the INVERTED lines of the iteration for rule, started on the working set
\* rs: one for every combined rule that is not in the working set.  The
\* pairs written within one iteration never coincide (see for_each_other),
\* so every call of the iteration sees the pairs of rs
inverted_prints(rs, current, rule) ==
  Cardinality({other \in current :
                 /\ other.from = rule.to
                 /\ ~contains(rs, [from |-> rule.from, to |-> other.to])})

\* what one pass over the snapshot current can leave, in any order of its
\* iterations: the rule set and the number of INVERTED lines printed.  An
\* iteration that writes nothing prints no such line, so only the order of
\* the iterations that write is varied (as in PassStep)
RECURSIVE pass_outcomes(_, _, _)
pass_outcomes(b, current, done) ==
  LET left == {r \in current :
                 <<r.from, r.to>> \notin done /\ ~settled(b.rules, current, r)}
  IN IF left = {} THEN {b}
     ELSE UNION {pass_outcomes(next[2], current,
                               done \cup {<<next[1].from, next[1].to>>}) :
                   next \in {<<r, [rules |-> visit(b.rules, current, r),
                                   prints |-> b.prints
                                     + inverted_prints(b.rules, current, r)]>> :
                              r \in left}}

\* what the outer loop can end with when it starts from b; a pass that
\* leaves the rules as they were repeats for ever and ends with nothing
RECURSIVE builds_from(_)
builds_from(b) ==
  IF Cardinality(b.rules) = 16 THEN {b}
  ELSE UNION {builds_from(next) :
                next \in {n \in pass_outcomes(
                                  [rules |-> b.rules,
                                   prints |-> b.prints + pass_prints(b.rules)],
                                  b.rules, {}) :
                            n.rules # b.rules}}

\* every run of the initialiser of ALL_CONVERSION: the table it returns and
\* the number of lines it prints
all_builds == builds_from([rules |-> seed_rules, prints |-> 0])

\* every value the initialiser of ALL_CONVERSION can produce
all_tables == {b.rules : b \in all_builds}

\* the lines one run of the initialiser prints.  The loop makes two passes,
\* of 10 and 50 calls of the closure body, each printing FROM, TO and
\* COMBINED; combine prints 1 and 8 lines in them, and 6 and 1 combined
\* rules are new and print INVERTED.  all_builds counts the same lines run
\* by run, and Built takes the table of a run with this many
Prints == 196

\* the conversion the callers ask for
Request ==
  { [from |-> "Ton", to |-> "Gram", quantity |-> ParseF64(<<"1">>)] }

\* `let rules = ALL_CONVERSION;` and the dereference by rules.iter(): the
\* caller gets a Lazy of its own and starts the initialiser on it
enter(call, request) ==
  [call EXCEPT !.pc = "building", !.request = <<request>>]

\* the initialiser returns: the Lazy holds the table
built(call, table) ==
  [call EXCEPT !.pc = "built", !.table = table]

\* rules.iter().find(|rule| rule.from == self && to == rule.to)
find(call) ==
  LET self == call.request[1].from
      to == call.request[1].to
      found == {rule \in call.table : rule.from = self /\ to = rule.to}
  IN [call EXCEPT !.pc = "found",
                  !.rule = IF found = {} THEN <<>>
                           ELSE <<CHOOSE rule \in found : TRUE>>]

\* `return rule.apply_to(quantity)`: convert_to returns and its local
\* `rules` goes out of scope
apply(call) ==
  [call EXCEPT !.pc = "applied", !.table = {},
               !.value = <<apply_to(call.rule[1], call.request[1].quantity)>>]

\* format!("{:.8}", result) and result.parse() of execute
format(call) ==
  [call EXCEPT !.pc = "done",
               !.value = <<ParseF64(FormatFixed(call.value[1], 8))>>]

\* the initialiser of the caller has lines left to print
printing(call) == call.pc = "building" /\ call.printed < Prints

\* what lets a caller take each step of execute.  println! writes to the
\* output capture of the thread when one is set; otherwise it needs the
\* lock of the standard output, which is one for the whole process
can_print(call, captured) == printing(call) /\ captured

can_lock(call, captured, out) == printing(call) /\ ~captured /\ out = 0

\* println! holds the lock until its line is written
can_unlock(c, out) == out = c

\* the loop of the initialiser is left once every line is printed
can_return_table(call) ==
  call.pc = "building" /\ call.printed = Prints

can_find(call) == call.pc = "built"

\* the else branch of convert_to is todo!("Error"): a caller whose lookup
\* found nothing goes no further
can_apply(call) == call.pc = "found" /\ call.rule # <<>>

can_format(call) == call.pc = "applied"

\* a thread calls Conversion::execute, which calls convert_to
Enter(c) ==
  /\ callers[c].pc = "idle"
  /\ builds < MaxConvert
  /\ builds' = builds + 1
  /\ \E request \in Request :
       callers' = [callers EXCEPT ![c] = enter(@, request)]
  /\ UNCHANGED <<capture, pc, rules, current_rules, visited, response, parsed, stdout>>

\* println! with an output capture set: the line goes to the buffer of the
\* thread's own test
WriteCaptured(c) ==
  /\ can_print(callers[c], capture)
  /\ callers' = [callers EXCEPT ![c].printed = @ + 1]
  /\ UNCHANGED <<capture, pc, rules, current_rules, visited, response,
                 parsed, builds, stdout>>

\* println! without one takes the lock of the standard output
Lock(c) ==
  /\ can_lock(callers[c], capture, stdout)
  /\ stdout' = c
  /\ UNCHANGED <<capture, pc, rules, current_rules, visited, response, parsed, builds, callers>>

\* println! has written its line and lets the lock go
Unlock(c) ==
  /\ can_unlock(c, stdout)
  /\ stdout' = 0
  /\ callers' = [callers EXCEPT ![c].printed = @ + 1]
  /\ UNCHANGED <<capture, pc, rules, current_rules, visited, response, parsed, builds>>

\* the initialiser has printed all its lines and returns its table
Built(c) ==
  /\ can_return_table(callers[c])
  /\ \E b \in all_builds :
       /\ b.prints = callers[c].printed
       /\ callers' = [callers EXCEPT ![c] = built(@, b.rules)]
  /\ UNCHANGED <<capture, pc, rules, current_rules, visited, response, parsed, builds, stdout>>

Find(c) ==
  /\ can_find(callers[c])
  /\ callers' = [callers EXCEPT ![c] = find(@)]
  /\ UNCHANGED <<capture, pc, rules, current_rules, visited, response, parsed, builds, stdout>>

Apply(c) ==
  /\ can_apply(callers[c])
  /\ callers' = [callers EXCEPT ![c] = apply(@)]
  /\ UNCHANGED <<capture, pc, rules, current_rules, visited, response, parsed, builds, stdout>>

Format(c) ==
  /\ can_format(callers[c])
  /\ callers' = [callers EXCEPT ![c] = format(@)]
  /\ UNCHANGED <<capture, pc, rules, current_rules, visited, response, parsed, builds, stdout>>

\* execute returns its result to the thread
Return(c) ==
  /\ callers[c].pc = "done"
  /\ callers' = [callers EXCEPT ![c] = NoCall]
  /\ UNCHANGED <<capture, pc, rules, current_rules, visited, response, parsed, builds, stdout>>

ConcNext ==
  \E c \in Caller :
    \/ Enter(c) \/ WriteCaptured(c) \/ Lock(c) \/ Unlock(c) \/ Built(c)
    \/ Find(c) \/ Apply(c) \/ Format(c) \/ Return(c)

\* the threads run under the test harness, which captures their output, or
\* with --nocapture or as plain threads, which print to the standard output
ConcInit == Start /\ capture \in BOOLEAN

ConcSpec == ConcInit /\ [][ConcNext]_vars

\* ------------------------------------------------------------------------
\* Properties
\* ------------------------------------------------------------------------

One == ParseF64(<<"1">>)

\* the rule of the table rs for the pair (from, to)
rule_of(rs, from, to) == CHOOSE r \in rs : r.from = from /\ r.to = to

\* the last call was convert(from, to, quantity)
Called(from, to, quantity) ==
  /\ response # <<>>
  /\ response[1].from = from
  /\ response[1].to = to
  /\ F64Eq(response[1].quantity, quantity)

\* the last call returned the value written as text
Returned(text) ==
  /\ response[1].result.ok
  /\ F64Eq(response[1].result.value, ParseF64(text))

\* C1: when the closure builder finishes, whatever order it enumerated the
\* working set in, the table holds exactly one rule for every ordered pair of
\* the four units (16 rules in all), every self-pair has factor 1.0, and no
\* conversion reaches the 'rule absent' branch of convert_to.
C1_Complete ==
  /\ pc = "built" =>
       /\ Cardinality(rules) = Cardinality(Unit) * Cardinality(Unit)
       /\ \A u, v \in Unit :
            Cardinality({r \in rules : r.from = u /\ r.to = v}) = 1
       /\ \A r \in rules : r.from = r.to => F64Eq(r.factor, F64One)
  /\ response # <<>> => response[1].result.ok

\* a conversion over a derived pair has been answered from a finished table
C1_Witness ==
  /\ Called("Ton", "Gram", One)
  /\ response[1].result.ok

\* C2: the conversion table is built exactly once per process: however many
\* convert calls are made, the closure construction runs one time.
C2_BuiltOnce == builds <= 1

\* C3: the closure loop terminates for every enumeration order: every pass
\* over the snapshot ends with strictly more rules in the working set than
\* the snapshot it started from, and the working set never holds more than
\* the 16 rules the loop leaves with, so the passes are at most ten.
C3_PassGrows ==
  /\ Cardinality(rules) <= Cardinality(Unit) * Cardinality(Unit)
  /\ (pc = "pass" /\ \A r \in current_rules : <<r.from, r.to>> \in visited)
       => Cardinality(rules) > Cardinality(current_rules)

\* the second pass has been through its whole snapshot and completed the table
C3_Witness ==
  /\ pc = "pass"
  /\ \A r \in current_rules : <<r.from, r.to>> \in visited
  /\ Cardinality(current_rules) > Cardinality(seed_rules)
  /\ Cardinality(rules) = Cardinality(Unit) * Cardinality(Unit)

\* the rules of the snapshot current are visited in the order of UnitSeq for
\* from, then of UnitSeq for to, from position k on
RECURSIVE pass_in_order(_, _, _)
pass_in_order(rs, current, k) ==
  IF k >= Len(UnitSeq) * Len(UnitSeq) THEN rs
  ELSE LET from == UnitSeq[(k \div Len(UnitSeq)) + 1]
           to == UnitSeq[(k % Len(UnitSeq)) + 1]
           hit == {r \in current : r.from = from /\ r.to = to}
       IN IF hit = {} THEN pass_in_order(rs, current, k + 1)
          ELSE CHOOSE t \in
                 {pass_in_order(next, current, k + 1) :
                    next \in {visit(rs, current, CHOOSE r \in hit : TRUE)}} : TRUE

RECURSIVE table_in_order(_)
table_in_order(rs) ==
  IF Cardinality(rs) = Cardinality(Unit) * Cardinality(Unit) THEN rs
  ELSE CHOOSE t \in
         {table_in_order(next) : next \in {pass_in_order(rs, rs, 0)}} : TRUE

\* the table the builder produces when every pass enumerates in that order
reference_table == table_in_order(seed_rules)

\* C4: convert is deterministic: a call returns the result that any other
\* call with the same (from, to, quantity) returns, whatever order the builder
\* enumerated the rule set in for the table of either call; in particular the
\* result of a call on a table built in the order of reference_table.
C4_Deterministic ==
  response # <<>> =>
    response[1].result =
      execute(reference_table, response[1].from, response[1].to,
              response[1].quantity)

\* C5: for every enumeration order of the closure, convert(Kilo, Gram, 1.0)
\* is exactly 1000.0, convert(Ton, Kilo, 1.0) is 1000.0 and
\* convert(Kilo, Ton, 1.0) is 0.001.
C5_MetricExact ==
  /\ Called("Kilo", "Gram", One) => Returned(<<"1", "0", "0", "0">>)
  /\ Called("Ton", "Kilo", One) => Returned(<<"1", "0", "0", "0">>)
  /\ Called("Kilo", "Ton", One) => Returned(<<"0", ".", "0", "0", "1">>)

\* convert(Kilo, Gram, 1.0) has returned 1000.0 from a table whose kg -> g
\* rule was combined from kg -> lb and lb -> g, whose product is not 1000.0
C5_Witness ==
  /\ Called("Kilo", "Gram", One)
  /\ Returned(<<"1", "0", "0", "0">>)
  /\ ~F64Eq(F64Mul(ParseF64(CONVERSION_TABLE[3][3]),
                    ParseF64(CONVERSION_TABLE[2][3])),
            ParseF64(<<"1", "0", "0", "0">>))

\* C6: the derived metric pair gram / metric ton carries no drift: for every
\* enumeration order of the closure, convert(Ton, Gram, 1.0) is 1000000.0 and
\* convert(Gram, Ton, 1.0) is 0.000001, also when the rule of one direction
\* is produced by invert rather than by combine.
C6_NoDrift ==
  /\ Called("Ton", "Gram", One) => Returned(<<"1", "0", "0", "0", "0", "0", "0">>)
  /\ Called("Gram", "Ton", One) => Returned(<<"0", ".", "0", "0", "0", "0", "0", "1">>)

\* the number of digits after the point in the text t
FractionDigits(t) ==
  IF \E i \in 1..Len(t) : t[i] = "."
  THEN Len(t) - (CHOOSE i \in 1..Len(t) : t[i] = ".")
  ELSE 0

\* the request quantities written with at most 8 fractional digits
Quantity8 == {ParseF64(t) : t \in {x \in QuantityText : FractionDigits(x) <= 8}}

\* C7: identity: for all units U and all quantities q, convert(U, U, q) is q
\* rounded to 8 fractional digits, which is q itself for every q written with
\* at most 8 fractional digits.
C7_IdentityRounded ==
  (response # <<>> /\ response[1].from = response[1].to) =>
    /\ response[1].result.ok
    /\ F64Eq(response[1].result.value,
             ParseF64(FormatFixed(response[1].quantity, 8)))
    /\ response[1].quantity \in Quantity8
         => F64Eq(response[1].result.value, response[1].quantity)

\* convert(Lb, Lb, 0.00000001) has returned 0.00000001
C7_Witness ==
  /\ Called("Lb", "Lb", ParseF64(<<"0", ".", "0", "0", "0", "0", "0", "0", "0", "1">>))
  /\ Returned(<<"0", ".", "0", "0", "0", "0", "0", "0", "0", "1">>)

\* C7 as stated: for all units U and all quantities q, convert(U, U, q) is q.
C7_Identity ==
  (response # <<>> /\ response[1].from = response[1].to) =>
    /\ response[1].result.ok
    /\ F64Eq(response[1].result.value, response[1].quantity)

\* |a| >= |b| for b # 0
AtLeast(a, b) == F64CmpMag(a, b) >= 0

\* |r - q| <= |q| / 10^5, computed exactly on the binary values
WithinTolerance(r, q) ==
  LET e0 == IF r.e < q.e THEN r.e ELSE q.e
      R == BShl(r.m, r.e - e0)
      Q == BShl(q.m, q.e - e0)
      diff == IF r.s # q.s THEN BAdd(R, Q)
              ELSE IF BCmp(R, Q) >= 0 THEN BSub(R, Q)
              ELSE BSub(Q, R)
  IN BCmp(BMul(diff, BPow10(5)), Q) <= 0

\* convert(v, u, convert(u, v, q)), the first call on the table there and the
\* second on the table back
RoundTrip(there, back, u, v, q) ==
  execute(back, v, u, execute(there, u, v, q).value).value

\* the pairs of tables a round trip is taken over: the table just built for
\* both calls, or for one of them with reference_table for the other
TablePairs ==
  {<<rules, rules>>, <<rules, reference_table>>, <<reference_table, rules>>}

\* C8: invertibility: for all units U # V and all quantities q with
\* |q| >= 0.01 and |convert(U, V, q)| >= 0.01, convert(V, U, convert(U, V, q))
\* is q within 1e-5 relative tolerance, both conversions rounding their
\* result to 8 decimal digits.
C8_InvertibleAbove ==
  pc = "built" =>
    \A u, v \in Unit : \A q \in Quantity : \A t \in TablePairs :
      (/\ u # v
       /\ AtLeast(q, ParseF64(<<"0", ".", "0", "1">>))
       /\ AtLeast(execute(t[1], u, v, q).value, ParseF64(<<"0", ".", "0", "1">>)))
      => WithinTolerance(RoundTrip(t[1], t[2], u, v, q), q)

\* on a finished table 0.123456789 lb converts to at least 0.01 kg and comes
\* back within the tolerance, but not as 0.123456789
C8_Witness ==
  /\ pc = "built"
  /\ AtLeast(execute(rules, "Lb", "Kilo", ParseF64(<<"0", ".", "1", "2", "3", "4", "5", "6", "7", "8", "9">>)).value,
             ParseF64(<<"0", ".", "0", "1">>))
  /\ WithinTolerance(RoundTrip(rules, rules, "Lb", "Kilo",
                               ParseF64(<<"0", ".", "1", "2", "3", "4", "5", "6", "7", "8", "9">>)),
                     ParseF64(<<"0", ".", "1", "2", "3", "4", "5", "6", "7", "8", "9">>))
  /\ ~F64Eq(RoundTrip(rules, rules, "Lb", "Kilo", ParseF64(<<"0", ".", "1", "2", "3", "4", "5", "6", "7", "8", "9">>)),
            ParseF64(<<"0", ".", "1", "2", "3", "4", "5", "6", "7", "8", "9">>))

\* C8 as stated: for all units U # V and all quantities q,
\* convert(V, U, convert(U, V, q)) is q within 1e-5 relative tolerance.
C8_Invertible ==
  pc = "built" =>
    \A u, v \in Unit : \A q \in Quantity :
      u # v => WithinTolerance(RoundTrip(rules, rules, u, v, q), q)

\* the four recognized unit codes
KnownCode == {"lb", "kg", "g", "metric ton"}

\* C9: parsing a unit code that is not one of "lb", "kg", "g", "metric ton"
\* fails with the error value UnknownUnit carrying the offending code, and
\* the four recognized codes parse to Pound, Kilogram, Gram and MetricTon.
C9_UnknownUnit ==
  parsed # <<>> =>
    /\ parsed[1].code = "lb" => parsed[1].result = [ok |-> TRUE, unit |-> "Lb"]
    /\ parsed[1].code = "kg" => parsed[1].result = [ok |-> TRUE, unit |-> "Kilo"]
    /\ parsed[1].code = "g" => parsed[1].result = [ok |-> TRUE, unit |-> "Gram"]
    /\ parsed[1].code = "metric ton"
         => parsed[1].result = [ok |-> TRUE, unit |-> "Ton"]
    /\ parsed[1].code \notin KnownCode
         => parsed[1].result =
              [ok |-> FALSE, err |-> <<"UnknownUnit", parsed[1].code>>]

\* C10: the seed factors are authoritative: in the completed table the rule
\* of each of the four seed pairs carries exactly its seed factor, and a
\* conversion of 1.0 over a seed pair returns that factor.
C10_SeedsKept ==
  \A i \in 1..Len(CONVERSION_TABLE) :
    LET seed == ConversionRule_from(CONVERSION_TABLE[i])
    IN /\ pc = "built" =>
            F64Eq(rule_of(rules, seed.from, seed.to).factor,
                  ParseF64(CONVERSION_TABLE[i][3]))
       /\ Called(seed.from, seed.to, One) => Returned(CONVERSION_TABLE[i][3])

\* convert(Kilo, Lb, 1.0) has returned the seed factor 2.20462262, which the
\* inverse of the seed lb -> kg does not equal
C10_Witness ==
  /\ Called("Kilo", "Lb", One)
  /\ Returned(<<"2", ".", "2", "0", "4", "6", "2", "2", "6", "2">>)
  /\ ~F64Eq(invert(ConversionRule_from(CONVERSION_TABLE[1])).factor,
            ParseF64(<<"2", ".", "2", "0", "4", "6", "2", "2", "6", "2">>))

\* C11: for every enumeration order of the closure, convert(Ton, Lb, 1.0) is
\* within 1e-5 relative tolerance of 2204.62262185.
C11_TonToPoundClose ==
  Called("Ton", "Lb", One) =>
    /\ response[1].result.ok
    /\ WithinTolerance(response[1].result.value, ParseF64(<<"2", "2", "0", "4", ".", "6", "2", "2", "6", "2", "1", "8", "5">>))

\* convert(Ton, Lb, 1.0) has returned 2204.62262, which is not 2204.62262185
\* but within the tolerance of it
C11_Witness ==
  /\ Called("Ton", "Lb", One)
  /\ Returned(<<"2", "2", "0", "4", ".", "6", "2", "2", "6", "2">>)
  /\ ~F64Eq(ParseF64(<<"2", "2", "0", "4", ".", "6", "2", "2", "6", "2">>), ParseF64(<<"2", "2", "0", "4", ".", "6", "2", "2", "6", "2", "1", "8", "5">>))

\* C12: the derived conversions that involve the pound return exactly the
\* values the tests assert, for every enumeration order of the closure:
\* convert(Ton, Lb, 1.0) is 2204.62262185, convert(Lb, Ton, 1.0) is
\* 0.00045359 and convert(Gram, Lb, 1.0) is 0.00220462.
C12_PoundExact ==
  /\ Called("Ton", "Lb", One) => Returned(<<"2", "2", "0", "4", ".", "6", "2", "2", "6", "2", "1", "8", "5">>)
  /\ Called("Lb", "Ton", One) => Returned(<<"0", ".", "0", "0", "0", "4", "5", "3", "5", "9">>)
  /\ Called("Gram", "Lb", One) => Returned(<<"0", ".", "0", "0", "2", "2", "0", "4", "6", "2">>)

\* the pairs (rule, other) the closure combines in the current pass
Combined ==
  {p \in current_rules \X current_rules : p[2].from = p[1].to}

\* the factor of the pair before any correction: 1.0 for a self-pair, else
\* the product of the two factors
Uncorrected(p) ==
  IF p[1].from = p[2].to THEN F64One ELSE F64Mul(p[1].factor, p[2].factor)

\* both ends of the combined rule are metric and its factor is above 1.0
Corrects(p) ==
  /\ is_metric(p[1].from)
  /\ is_metric(p[2].to)
  /\ F64Gt(Uncorrected(p), F64One)

\* C13: the rounding correction of combine fires only when both the from
\* unit and the to unit of the combined rule are metric and the computed
\* factor is above 1.0, and then gives its ceiling; a combined rule whose from
\* or to is the pound, or whose factor is at most 1.0 (the self-pair factor
\* 1.0 included), keeps the computed factor unchanged.
C13_CorrectionOnlyMetric ==
  pc = "pass" =>
    \A p \in Combined :
      /\ combine(p[1], p[2]).from = p[1].from
      /\ combine(p[1], p[2]).to = p[2].to
      /\ Corrects(p) =>
           F64Eq(combine(p[1], p[2]).factor, F64Ceil(Uncorrected(p)))
      /\ ~Corrects(p) => F64Eq(combine(p[1], p[2]).factor, Uncorrected(p))

\* a pass combines a metric pair whose product the correction changes, and a
\* pair with the pound whose product is above 1.0, not whole, and kept
C13_Witness ==
  /\ pc = "pass"
  /\ \E p \in Combined :
       /\ Corrects(p)
       /\ ~F64Eq(combine(p[1], p[2]).factor, Uncorrected(p))
  /\ \E p \in Combined :
       /\ ~is_metric(p[2].to)
       /\ F64Gt(Uncorrected(p), F64One)
       /\ ~F64Eq(F64Ceil(Uncorrected(p)), Uncorrected(p))
       /\ F64Eq(combine(p[1], p[2]).factor, Uncorrected(p))

\* a caller that holds a constructed table: it is between the return of
\* the initialiser and the return of convert_to
Reading(c) == callers[c].pc \in {"built", "found"}

\* the step leaves the constructed table of the caller c as it is, or is
\* the return of c from convert_to, which lets the table go
TableKept(c) ==
  Reading(c) =>
    /\ callers[c].table \in all_tables
    /\ \/ callers'[c].table = callers[c].table
       \/ callers'[c].pc = "applied" /\ callers'[c].table = {}

\* a step changes the locals of one caller only
LocalsApart(c) ==
  callers'[c] # callers[c] => \A d \in Caller \ {c} : callers'[d] = callers[d]

\* the caller c is inside execute
Inside(c) == callers[c].pc \in {"building", "built", "found", "applied"}

\* the next step of the caller c can be taken
CanStep(c) ==
  \/ can_print(callers[c], capture)
  \/ can_lock(callers[c], capture, stdout)
  \/ can_unlock(c, stdout)
  \/ can_return_table(callers[c])
  \/ can_find(callers[c])
  \/ can_apply(callers[c])
  \/ can_format(callers[c])

\* the initialiser has run to its end at least once: it was started more
\* often than there are callers still inside it
Constructed ==
  builds > Cardinality({c \in Caller : callers[c].pc = "building"})

\* the caller c waits for the lock of the standard output, which d holds
Blocks(d, c) == printing(callers[c]) /\ ~capture /\ stdout = d /\ d # c

\* C14: once the table has been constructed, no convert call, in any
\* interleaving of the concurrent callers, adds, removes or changes a rule
\* of a constructed table, a step changes the locals of one caller only,
\* and no caller blocks another: a caller inside convert can always take
\* its next step, whatever the other callers hold.
C14_ReadOnly ==
  [][Constructed =>
       \A c \in Caller :
         /\ TableKept(c)
         /\ LocalsApart(c)
         /\ Inside(c) => CanStep(c)
    ]_vars

\* the rule r is written by the closure body for some pair of the snapshot:
\* as the combined rule, or as the inverse of a combined rule that is
\* written with it
WrittenByClosure(r, new) ==
  \E p \in Combined :
    \/ r = combine(p[1], p[2])
    \/ r = invert(combine(p[1], p[2])) /\ combine(p[1], p[2]) \in new

\* C15: during the closure a combined rule is inserted only if its pair is
\* absent from the live working set, and its inverse only with it and only
\* if the inverse's pair is absent too; so an iteration only adds rules, and
\* a pair that is present keeps its factor for the rest of the construction.
C15_InsertOnlyAbsent ==
  [][pc = "pass" =>
       /\ rules \subseteq rules'
       /\ \A r \in rules' \ rules :
            /\ ~contains(rules, r)
            /\ WrittenByClosure(r, rules' \ rules)
       /\ \A r, x \in rules' : eq(r, x) => r = x]_vars

\* an iteration has written rules while others of the snapshot, whose pairs
\* were present from the start of the pass, are still to come
C15_Witness ==
  /\ pc = "pass"
  /\ Cardinality(rules) > Cardinality(current_rules)
  /\ \E r \in current_rules : <<r.from, r.to>> \notin visited

\* the natural number the digits of the text t spell, sign and point left out
Ticks(t) ==
  ParseFrom(t, IF t # <<>> /\ t[1] = "-" THEN 2 ELSE 1, <<<<>>, 0, FALSE>>)[1]

\* n / 10^8 is the multiple of 10^-8 nearest to |p|, or one of the two
\* nearest: |n - |p| * 10^8| <= 1/2, computed exactly on the binary value
NearestTick(n, p) ==
  LET scaled == BMul(p.m, BPow10(8))
  IN IF p.e >= 0 THEN n = BShl(scaled, p.e)
     ELSE LET a == BShl(n, 0 - p.e)
              diff == IF BCmp(a, scaled) >= 0 THEN BSub(a, scaled)
                      ELSE BSub(scaled, a)
          IN BCmp(BShl(diff, 1), BShl(BOne, 0 - p.e)) <= 0

\* r is p rounded to 8 fractional decimal digits: r is the double nearest to
\* a decimal with 8 fractional digits, which it is printed as again, that
\* decimal is a nearest one to p, and r has the sign of p unless it is zero
RoundedTo8(r, p) ==
  /\ F64Eq(ParseF64(FormatFixed(r, 8)), r)
  /\ NearestTick(Ticks(FormatFixed(r, 8)), p)
  /\ F64IsZero(r) \/ r.s = p.s

\* C16: convert returns rule.factor * quantity rounded, not truncated, to 8
\* fractional decimal digits, for every pair of units and every quantity;
\* the value returned has no digit after the 8th decimal place.
C16_RoundedNotTruncated ==
  pc = "built" =>
    \A from, to \in Unit : \A quantity \in Quantity :
      /\ execute(rules, from, to, quantity).ok
      /\ RoundedTo8(execute(rules, from, to, quantity).value,
                    F64Mul(rule_of(rules, from, to).factor, quantity))

\* on a finished table 0.123456789 lb converts to 0.12345679 lb, where
\* cutting the digits would give 0.12345678
C16_Witness ==
  /\ pc = "built"
  /\ F64Eq(execute(rules, "Lb", "Lb", ParseF64(<<"0", ".", "1", "2", "3", "4", "5", "6", "7", "8", "9">>)).value,
           ParseF64(<<"0", ".", "1", "2", "3", "4", "5", "6", "7", "9">>))
  /\ FormatTruncated(ParseF64(<<"0", ".", "1", "2", "3", "4", "5", "6", "7", "8", "9">>), 8) = <<"0", ".", "1", "2", "3", "4", "5", "6", "7", "8">>

====
